---------------------------- MODULE Spec2Model ----------------------------
(***************************************************************************)
(* A model of ticker-tweets (src/app.py): the TwitterInlet cursor, the     *)
(* SMTPStockEmailOutlet constructor and shutdown, and the mention          *)
(* detection of SMTPStockEmailOutlet._analyze_tweet.                       *)
(*                                                                         *)
(* Text is a sequence of one-character strings, so that character removal  *)
(* and splitting are computed rather than assumed.  A similarity score is  *)
(* an integer number of hundredths (0.80 is 80).                           *)
(***************************************************************************)
EXTENDS Integers, Sequences, FiniteSets, TLC

VARIABLES
    pc,                  \* position of the running process
    host,                \* who drives the outlet: "harness", "script" (main), "planner"
    stock_data,          \* self.stock_data: sequence of [Symbol, Name]
    symbols,             \* self.symbols, in the iteration order of the set
    proper_stock_names,  \* self.proper_stock_names, in the iteration order of the set
    server,              \* self.server: "none", "open", "closed"
    nlp,                 \* self.nlp: NotLoaded or a loaded language model
    load_failures,       \* history: how many spacy.load calls raised
    install_ran,         \* history: the download step of line 99 ran
    raised,              \* the exception that left the process, or "none"
    tweet,               \* argument of _analyze_tweet
    stripped,            \* local `tweet` after line 115
    tweet_tokens,        \* local `tweet_tokens` after line 119
    doc,                 \* tokens of local `doc` (line 140)
    emitted,             \* history: the loop position of every appended mention
    evaluations,         \* history: number of similarity evaluations of the call
    mentions,            \* the value _analyze_tweet returned
    user,                \* TwitterInlet.user
    is_user_timeline,    \* TwitterInlet.is_user_timeline
    most_recent_id,      \* TwitterInlet.most_recent_id
    home_feed,           \* ids on the authenticated user's home timeline
    user_feed,           \* ids on the followed user's timeline
    public_tweets,       \* what the last pull got from the feed, newest first
    cursor_before,       \* history: most_recent_id when the last pull started
    delivered            \* history: every id returned by a pull, in order

outletVars == <<stock_data, symbols, proper_stock_names, server, nlp,
                load_failures, install_ran, raised>>
detectVars == <<tweet, stripped, tweet_tokens, doc, emitted, evaluations, mentions>>
inletVars  == <<user, is_user_timeline, most_recent_id, home_feed, user_feed,
                public_tweets, cursor_before, delivered>>
vars == <<pc, host, outletVars, detectVars, inletVars>>

---------------------------------------------------------------------------
(* Bounds of the model *)

MaxLen == 3          \* longest tweet drawn character by character
MaxWords == 4        \* longest tweet drawn word by word
MaxStocks == 2       \* longest catalog
MaxChunkWords == 2   \* longest noun chunk the language model produces
MaxTweetId == 4      \* ids the feed hands out
MaxPage == 2         \* most tweets the feed returns to one request

---------------------------------------------------------------------------
(* Program constants *)

SIMILARITY_THRESHOLD == 80

\* None, for most_recent_id and user; tweet ids and user ids are positive.
None == 0

\* the user a TwitterInlet is given
SomeUser == 1

\* the character U+0060, which a TLA+ string cannot hold
grave == "U+0060"

\* line 21; defined by the program and never used by it
PUNCTUATION ==
    {"!", "\"", "#", "$", "%", "&", "'", "(", ")", "*", "+", ",", ".", "/",
     ":", ";", "<", "=", ">", "?", "@", "[", "\\", "]", "^", "_", grave, "{",
     "|", "}", "~"}

\* Python's string.punctuation, which line 115 uses
string_punctuation ==
    {"!", "\"", "#", "$", "%", "&", "'", "(", ")", "*", "+", ",", "-", ".",
     "/", ":", ";", "<", "=", ">", "?", "@", "[", "\\", "]", "^", "_", grave,
     "{", "|", "}", "~"}

\* self.nlp.Defaults.stop_words, restricted to the words of the model's tweets
stop_words ==
    {<<"a">>,
     <<"i", "s">>,
     <<"u", "p">>,
     <<"n", "o", "t", "h", "i", "n", "g">>,
     <<"a", "n", "d">>,
     <<"s", "e", "e", "m">>,
     <<"t", "o">>,
     <<"b", "e">>,
     <<"r", "e", "a", "l", "l", "y">>,
     <<"a", "t">>,
     <<"e", "a", "c", "h">>,
     <<"o", "t", "h", "e", "r">>,
     <<"n", "o", "w">>}

---------------------------------------------------------------------------
(* Inputs *)

\* characters of the tweets drawn character by character: a letter, the
\* space, "-" (in string.punctuation only) and "$" (in PUNCTUATION too)
Alphabet == {"A", " ", "-", "$"}

\* words of the tweets drawn word by word: "a" is a stop word, "A" is not
WordPool == {<<"A">>, <<"a">>}

SymbolPool == {<<"A">>, <<"A", "A">>}

NamePool == {<<"A">>, <<"A", " ", "A">>}

Scores == {0, 79, 80, 100}

AAPL == <<"A", "A", "P", "L">>

AppleInc == <<"A", "p", "p", "l", "e", " ", "I", "n", "c">>

ExampleCatalog == <<[Symbol |-> AAPL, Name |-> AppleInc]>>

ExampleTweetUp ==
    <<"A", "A", "P", "L", " ", "i", "s", " ", "u", "p", " ",
      "t", "o", "d", "a", "y">>

ExampleTweetNothing ==
    <<"n", "o", "t", "h", "i", "n", "g", " ",
      "r", "e", "l", "e", "v", "a", "n", "t">>

\* the tweet main analyzes, line 213
MainTweet ==
    <<"A", "p", "p", "l", "e", " ", "a", "n", "d", " ", "G", "a", "r",
      "t", "n", "e", "r", " ", "s", "e", "e", "m", " ", "t", "o", " ",
      "b", "e", " ", "r", "e", "a", "l", "l", "y", " ", "a", "t", " ",
      "e", "a", "c", "h", " ", "o", "t", "h", "e", "r", " ", "r", "i",
      "g", "h", "t", " ", "n", "o", "w">>

RECURSIVE JoinWords(_)
JoinWords(ws) ==
    IF ws = <<>> THEN <<>>
    ELSE IF Len(ws) = 1 THEN ws[1]
    ELSE ws[1] \o <<" ">> \o JoinWords(Tail(ws))

Strings == UNION {[1..n -> Alphabet] : n \in 0..MaxLen}

Sentences == {JoinWords(ws) : ws \in UNION {[1..n -> WordPool] : n \in 1..MaxWords}}

Tweets ==
    Strings \cup Sentences \cup {ExampleTweetUp, ExampleTweetNothing, MainTweet}

Stock == [Symbol : SymbolPool, Name : NamePool]

\* the catalogs a load can produce: the Symbol of an entry is a unique key
Catalogs ==
    {c \in UNION {[1..n -> Stock] : n \in 0..MaxStocks} :
        \A i, j \in DOMAIN c : c[i].Symbol = c[j].Symbol => i = j}
    \cup {ExampleCatalog}

\* the language models a load can produce: a similarity table and a chunker
Models ==
    [loaded : {TRUE}, same : Scores, different : Scores,
     chunk_words : 1..MaxChunkWords]

NotLoaded == [loaded |-> FALSE]

---------------------------------------------------------------------------
(* Python and spaCy primitives *)

\* the iteration orders of a Python set
Orders(S) ==
    {f \in [1..Cardinality(S) -> S] : \A x \in S : \E i \in DOMAIN f : f[i] = x}

\* "".join(parts)
RECURSIVE join(_)
join(parts) == IF parts = <<>> THEN <<>> ELSE parts[1] \o join(Tail(parts))

\* tweet.translate(str.maketrans("", "", string.punctuation))
translate(text) == SelectSeq(text, LAMBDA c : c \notin string_punctuation)

\* text.split(" "): the pieces between single spaces, empty pieces included
RECURSIVE split(_)
split(text) ==
    IF \A i \in DOMAIN text : text[i] # " " THEN <<text>>
    ELSE LET i == CHOOSE k \in DOMAIN text :
                     text[k] = " " /\ \A l \in 1..(k - 1) : text[l] # " "
         IN  <<SubSeq(text, 1, i - 1)>> \o split(SubSeq(text, i + 1, Len(text)))

\* [word for word in tweet_tokens if word not in stopwords]
drop_stopwords(words) == SelectSeq(words, LAMBDA w : w \notin stop_words)

\* the tokens of self.nlp(text): the words between whitespace (the tokens
\* spaCy makes of surplus whitespace are left out)
tokenizer(text) == SelectSeq(split(text), LAMBDA w : w # <<>>)

\* doc.noun_chunks: consecutive spans of at most model.chunk_words tokens,
\* each given by its text
noun_chunks(model, tokens) ==
    LET k == model.chunk_words
        n == Len(tokens)
    IN  [c \in 1..((n + k - 1) \div k) |->
            JoinWords(SubSeq(tokens, (c - 1) * k + 1,
                             IF c * k < n THEN c * k ELSE n))]

\* doc1.similarity(doc2), token.similarity(doc), chunk.similarity(doc)
similarity(model, a, b) == IF a = b THEN model.same ELSE model.different

---------------------------------------------------------------------------
(* SMTPStockEmailOutlet: catalog *)

\* _get_symbols
_get_symbols(data) == {data[i].Symbol : i \in DOMAIN data}

\* _get_stock_proper_name
_get_stock_proper_name(data) == {data[i].Name : i \in DOMAIN data}

\* lines 131-137: "".join of the Name of every stock whose Symbol is symbol
ProperNameOf(data, symbol) ==
    join([i \in 1..Len(SelectSeq(data, LAMBDA s : s.Symbol = symbol)) |->
            SelectSeq(data, LAMBDA s : s.Symbol = symbol)[i].Name])

\* variant: the join without its filter
SymbolOfAll(data, proper_name) == join([i \in DOMAIN data |-> data[i].Symbol])

\* lines 148-154, 168-174: "".join of the Symbol of every stock whose Name is
\* proper_name
SymbolOf(data, proper_name) ==
    join([i \in 1..Len(SelectSeq(data, LAMBDA s : s.Name = proper_name)) |->
            SelectSeq(data, LAMBDA s : s.Name = proper_name)[i].Symbol])

---------------------------------------------------------------------------
(* SMTPStockEmailOutlet._analyze_tweet *)

\* variant: the catalog entries in the outer loop
LoopPairsEntryFirst(n, m) ==
    [k \in 1..(n * m) |-> <<((k - 1) % n) + 1, ((k - 1) \div n) + 1>>]

\* variant: the inner loop stops one entry early
LoopPairsShort(n, m) ==
    IF m = 0 THEN <<>>
    ELSE [k \in 1..(n * (m - 1)) |->
            <<((k - 1) \div (m - 1)) + 1, ((k - 1) % (m - 1)) + 1>>]

\* the (item, entry) pairs of `for item in items: for entry in entries:`,
\* in the order the nested loops visit them
LoopPairs(n, m) ==
    [k \in 1..(n * m) |-> <<((k - 1) \div m) + 1, ((k - 1) % m) + 1>>]

\* variant: the comparison turned around
MatchesInverted(score) == score <= SIMILARITY_THRESHOLD

\* lines 125, 145, 165
Matches(score) == score >= SIMILARITY_THRESHOLD

\* the evaluations of one pass that reach the threshold, in loop order
Hits(pass, model, items, entries) ==
    LET pairs == LoopPairs(Len(items), Len(entries))
        all == [k \in DOMAIN pairs |->
                  [pass |-> pass, item |-> pairs[k][1], entry |-> pairs[k][2],
                   score |-> similarity(model, entries[pairs[k][2]],
                                        items[pairs[k][1]])]]
    IN  SelectSeq(all, LAMBDA h : Matches(h.score))

\* lines 126-139
MentionA(data, syms, tokens, h) ==
    [Symbol |-> syms[h.entry], SymbolToken |-> tokens[h.item],
     Score |-> h.score, ProperName |-> ProperNameOf(data, syms[h.entry])]

\* lines 146-159
MentionB(data, names, tokens, h) ==
    [Symbol |-> SymbolOf(data, names[h.entry]), ProperName |-> names[h.entry],
     NameToken |-> tokens[h.item], Score |-> h.score]

\* lines 166-179
MentionC(data, names, chunks, h) ==
    [Symbol |-> SymbolOf(data, names[h.entry]), ProperName |-> names[h.entry],
     WordChunk |-> chunks[h.item], Score |-> h.score]

\* line 161: the chunks the third loop compares, each with its place in
\* doc.noun_chunks
MultiWord(chunks) == SelectSeq(chunks, LAMBDA c : Len(split(c)) > 1)

\* mentions.append in the order of the three loops
Passes(a, b, c) == a \o b \o c

\* _analyze_tweet, lines 114-181
AnalyzeTweet(t) ==
    /\ pc = "constructed"
    /\ host \in {"harness", "script"}
    /\ nlp.loaded
    /\ LET text   == translate(t)
           tokens == drop_stopwords(split(text))
           d      == tokenizer(text)
           chunks == MultiWord(noun_chunks(nlp, d))
           hitsA  == Hits("A", nlp, tokens, symbols)
           hitsB  == Hits("B", nlp, d, proper_stock_names)
           hitsC  == Hits("C", nlp, chunks, proper_stock_names)
       IN  /\ tweet' = t
           /\ stripped' = text
           /\ tweet_tokens' = tokens
           /\ doc' = d
           /\ evaluations' = Len(tokens) * Len(symbols)
                             + Len(d) * Len(proper_stock_names)
                             + Len(chunks) * Len(proper_stock_names)
           /\ emitted' = Passes(hitsA, hitsB, hitsC)
           /\ mentions' =
                Passes(
                  [k \in DOMAIN hitsA |->
                      MentionA(stock_data, symbols, tokens, hitsA[k])],
                  [k \in DOMAIN hitsB |->
                      MentionB(stock_data, proper_stock_names, d, hitsB[k])],
                  [k \in DOMAIN hitsC |->
                      MentionC(stock_data, proper_stock_names, chunks, hitsC[k])])
    /\ pc' = "analyzed"
    /\ UNCHANGED <<host, outletVars, inletVars>>

---------------------------------------------------------------------------
(* Idle values of the parts a specification does not run *)

NoCall ==
    /\ tweet = <<>> /\ stripped = <<>> /\ tweet_tokens = <<>> /\ doc = <<>>
    /\ emitted = <<>> /\ evaluations = 0 /\ mentions = <<>>

NoInlet ==
    /\ user = None /\ is_user_timeline = FALSE /\ most_recent_id = None
    /\ home_feed = {} /\ user_feed = {} /\ public_tweets = <<>>
    /\ cursor_before = None /\ delivered = <<>>

NoOutlet ==
    /\ stock_data = <<>> /\ symbols = <<>> /\ proper_stock_names = <<>>
    /\ server = "none" /\ nlp = NotLoaded
    /\ load_failures = 0 /\ install_ran = FALSE /\ raised = "none"

---------------------------------------------------------------------------
(* The detection engine on every tweet, catalog and language model *)

InitDetect ==
    /\ pc = "constructed"
    /\ host = "harness"
    /\ stock_data \in Catalogs
    /\ symbols \in Orders(_get_symbols(stock_data))
    /\ proper_stock_names \in Orders(_get_stock_proper_name(stock_data))
    /\ server = "open"
    /\ nlp \in Models
    /\ load_failures = 0 /\ install_ran = FALSE /\ raised = "none"
    /\ NoCall
    /\ NoInlet

NextDetect == \E t \in Tweets : AnalyzeTweet(t)

SpecDetect == InitDetect /\ [][NextDetect]_vars

---------------------------------------------------------------------------
(* SMTPStockEmailOutlet.__init__, on_shutdown, and main *)

\* what _load_data or the two getters leave when the file is missing, is not
\* JSON, or holds a record without "Symbol" or "Name"
Unreadable == <<[Symbol |-> <<>>, Name |-> <<>>, unreadable |-> TRUE]>>

\* variant: the second failure is caught as well
LoadModelSwallow(load1, load2, model) ==
    IF load1
    THEN [nlp |-> model, load_failures |-> 0, install_ran |-> FALSE,
          raised |-> "none"]
    ELSE [nlp |-> IF load2 THEN model ELSE NotLoaded,
          load_failures |-> IF load2 THEN 1 ELSE 2,
          install_ran |-> TRUE, raised |-> "none"]

\* lines 94-101: load the language model; when that raises, run the download
\* and load again, and let a second failure leave the constructor
LoadModel(load1, load2, model) ==
    IF load1
    THEN [nlp |-> model, load_failures |-> 0, install_ran |-> FALSE,
          raised |-> "none"]
    ELSE IF load2
    THEN [nlp |-> model, load_failures |-> 1, install_ran |-> TRUE,
          raised |-> "none"]
    ELSE [nlp |-> NotLoaded, load_failures |-> 2, install_ran |-> TRUE,
          raised |-> "oracle"]

\* __init__, lines 74-103.  data, connect, login, load1 and load2 are what the
\* file system, the SMTP relay and spaCy answer.
OutletInit ==
    /\ pc = "start"
    /\ \E data \in Catalogs \cup {Unreadable},
          connect, login, load1, load2 \in BOOLEAN, model \in Models :
         IF data = Unreadable
         THEN /\ raised' = "data"
              /\ pc' = "exited"
              /\ UNCHANGED <<stock_data, symbols, proper_stock_names, server,
                             nlp, load_failures, install_ran>>
         ELSE /\ stock_data' = data
              /\ symbols' \in Orders(_get_symbols(data))
              /\ proper_stock_names' \in Orders(_get_stock_proper_name(data))
              /\ IF ~connect
                 THEN /\ raised' = "smtp"
                      /\ pc' = "exited"
                      /\ UNCHANGED <<server, nlp, load_failures, install_ran>>
                 ELSE /\ server' = "open"
                      /\ IF ~login
                         THEN /\ raised' = "login"
                              /\ pc' = "exited"
                              /\ UNCHANGED <<nlp, load_failures, install_ran>>
                         ELSE LET got == LoadModel(load1, load2, model)
                              IN  /\ nlp' = got.nlp
                                  /\ load_failures' = got.load_failures
                                  /\ install_ran' = got.install_ran
                                  /\ raised' = got.raised
                                  /\ pc' = IF got.raised = "none"
                                           THEN "constructed" ELSE "exited"
    /\ UNCHANGED <<host, detectVars, inletVars>>

\* main, lines 212-215 and 219: print the result and return; the interpreter
\* exits without calling on_shutdown
MainReturn ==
    /\ pc = "analyzed"
    /\ host = "script"
    /\ pc' = "exited"
    /\ UNCHANGED <<host, outletVars, detectVars, inletVars>>

\* on_shutdown, lines 111-112, called by a databay planner that holds the outlet
OnShutdown ==
    /\ pc = "constructed"
    /\ host = "planner"
    /\ server' = "closed"
    /\ pc' = "shutdown"
    /\ UNCHANGED <<host, stock_data, symbols, proper_stock_names, nlp,
                   load_failures, install_ran, raised, detectVars, inletVars>>

\* the planner's process ends after the shutdown
PlannerExit ==
    /\ pc = "shutdown"
    /\ host = "planner"
    /\ pc' = "exited"
    /\ UNCHANGED <<host, outletVars, detectVars, inletVars>>

InitMain ==
    /\ pc = "start"
    /\ host \in {"script", "planner"}
    /\ NoOutlet
    /\ NoCall
    /\ NoInlet

NextMain ==
    \/ OutletInit
    \/ (host = "script" /\ AnalyzeTweet(MainTweet))
    \/ MainReturn
    \/ OnShutdown
    \/ PlannerExit

SpecMain == InitMain /\ [][NextMain]_vars

---------------------------------------------------------------------------
(* TwitterInlet *)

Max(S) == CHOOSE x \in S : \A y \in S : y <= x

\* the ids of a set, newest first
RECURSIVE NewestFirst(_)
NewestFirst(S) ==
    IF S = {} THEN <<>> ELSE <<Max(S)>> \o NewestFirst(S \ {Max(S)})

FirstN(s, n) == SubSeq(s, 1, IF Len(s) < n THEN Len(s) ELSE n)

\* api.home_timeline / api.user_timeline: the tweets of a timeline that are
\* newer than since_id (all of them for None), newest first, at most MaxPage
timeline(feed, since_id) ==
    FirstN(NewestFirst({i \in feed : since_id = None \/ i > since_id}), MaxPage)

\* variant: the cursor taken from the oldest tweet returned
NewCursorLast(cursor, got) ==
    IF Len(got) > 0 THEN got[Len(got)] ELSE cursor

\* variant: the cursor assigned without the length test
NewCursorAlways(cursor, got) ==
    IF Len(got) > 0 THEN got[1] ELSE None

\* lines 63-65
NewCursor(cursor, got) ==
    IF Len(got) > 0 THEN got[1] ELSE cursor

\* pull, lines 49-70
Pull ==
    /\ pc = "polling"
    /\ LET got ==
             IF is_user_timeline
             THEN IF most_recent_id # None
                  THEN timeline(user_feed, most_recent_id)
                  ELSE timeline(user_feed, None)
             ELSE IF most_recent_id # None
                  THEN timeline(home_feed, most_recent_id)
                  ELSE timeline(home_feed, None)
       IN  /\ public_tweets' = got
           /\ most_recent_id' = NewCursor(most_recent_id, got)
           /\ cursor_before' = most_recent_id
           /\ delivered' = delivered \o got
    /\ UNCHANGED <<pc, host, outletVars, detectVars, user, is_user_timeline,
                   home_feed, user_feed>>

\* the feed: a new tweet gets the next id and appears on the home timeline,
\* on the followed user's timeline, or on both
Post ==
    /\ pc = "polling"
    /\ LET id == Max(home_feed \cup user_feed \cup {most_recent_id}) + 1
       IN  /\ id <= MaxTweetId
           /\ \E home, mine \in BOOLEAN :
                /\ home \/ mine
                /\ home_feed' = IF home THEN home_feed \cup {id} ELSE home_feed
                /\ user_feed' = IF mine THEN user_feed \cup {id} ELSE user_feed
    /\ UNCHANGED <<pc, host, outletVars, detectVars, user, is_user_timeline,
                   most_recent_id, public_tweets, cursor_before, delivered>>

\* TwitterInlet.__init__, lines 32-47, over a feed that already holds tweets
InitInlet ==
    /\ pc = "polling"
    /\ host = "planner"
    /\ NoOutlet
    /\ NoCall
    /\ user \in {None, SomeUser}
    /\ is_user_timeline = (user # None)
    /\ most_recent_id \in {None} \cup (1..MaxTweetId)
    /\ home_feed \in SUBSET (1..MaxTweetId)
    /\ user_feed \in SUBSET (1..MaxTweetId)
    /\ public_tweets = <<>>
    /\ cursor_before = None
    /\ delivered = <<>>

NextInlet == Pull \/ Post

SpecInlet == InitInlet /\ [][NextInlet]_vars

---------------------------------------------------------------------------
(* Properties of _analyze_tweet, under SpecDetect *)

IsPassA(m) == "SymbolToken" \in DOMAIN m
IsPassB(m) == "NameToken" \in DOMAIN m
IsPassC(m) == "WordChunk" \in DOMAIN m

PassRank(pass) == CASE pass = "A" -> 1 [] pass = "B" -> 2 [] pass = "C" -> 3

\* the chunks the third loop of the last call compared
ComparedChunks == MultiWord(noun_chunks(nlp, doc))

\* C1: every mention _analyze_tweet returns, from whichever of the three
\* loops, has a Score of at least SIMILARITY_THRESHOLD (0.80).
C1_ScoresReachThreshold ==
    \A k \in DOMAIN mentions : mentions[k].Score >= SIMILARITY_THRESHOLD

\* C1 witness: a call under a model that scores 0.80 and 0.79 returned
\* mentions from all three loops, one of them exactly at the threshold.
C1_Witness ==
    /\ pc = "analyzed"
    /\ nlp.same = 80 /\ nlp.different = 79
    /\ \E k \in DOMAIN mentions : IsPassA(mentions[k]) /\ mentions[k].Score = 80
    /\ \E k \in DOMAIN mentions : IsPassB(mentions[k])
    /\ \E k \in DOMAIN mentions : IsPassC(mentions[k])
    /\ Len(mentions) < evaluations

\* the (pass, item, entry) triples whose two strings are identical
IdenticalPairs ==
    {t \in {"A"} \X (DOMAIN tweet_tokens) \X (DOMAIN symbols) :
        tweet_tokens[t[2]] = symbols[t[3]]}
    \cup
    {t \in {"B"} \X (DOMAIN doc) \X (DOMAIN proper_stock_names) :
        doc[t[2]] = proper_stock_names[t[3]]}
    \cup
    {t \in {"C"} \X (DOMAIN ComparedChunks) \X (DOMAIN proper_stock_names) :
        ComparedChunks[t[2]] = proper_stock_names[t[3]]}

\* C2: under a model that scores 1.0 for identical strings and 0.0 otherwise,
\* the call returns exactly one mention for each (text item, catalog entry)
\* pair of identical strings and none for another pair; for the catalog
\* {AAPL, Apple Inc}, "AAPL is up today" gives the one mention of the first
\* loop with SymbolToken "AAPL" and Symbol "AAPL", and "nothing relevant"
\* gives none.
C2_IdentityOracleExactMatches ==
    (pc = "analyzed" /\ nlp.same = 100 /\ nlp.different = 0) =>
        /\ Len(emitted) = Cardinality(IdenticalPairs)
        /\ {<<emitted[k].pass, emitted[k].item, emitted[k].entry>> :
               k \in DOMAIN emitted} = IdenticalPairs
        /\ Len(mentions) = Len(emitted)
        /\ \A k \in DOMAIN mentions :
              /\ mentions[k].Score = 100
              /\ IsPassA(mentions[k]) =>
                    mentions[k].SymbolToken = mentions[k].Symbol
              /\ IsPassB(mentions[k]) =>
                    mentions[k].NameToken = mentions[k].ProperName
              /\ IsPassC(mentions[k]) =>
                    mentions[k].WordChunk = mentions[k].ProperName
        /\ (stock_data = ExampleCatalog /\ tweet = ExampleTweetUp) =>
              mentions = <<[Symbol |-> AAPL, SymbolToken |-> AAPL,
                            Score |-> 100, ProperName |-> AppleInc]>>
        /\ (stock_data = ExampleCatalog /\ tweet = ExampleTweetNothing) =>
              mentions = <<>>

\* C2 witness: the call on "AAPL is up today" with the catalog {AAPL, Apple Inc}
\* under the identity model returned one mention after comparing several pairs.
C2_Witness ==
    /\ pc = "analyzed"
    /\ nlp.same = 100 /\ nlp.different = 0
    /\ stock_data = ExampleCatalog
    /\ tweet = ExampleTweetUp
    /\ Len(mentions) = 1
    /\ evaluations > 1

\* C3: in the returned sequence the mentions of the first loop come before
\* those of the second, which come before those of the third, and within a
\* loop the mentions of an earlier token or chunk come before those of a later
\* one.
C3_MentionsInLoopOrder ==
    /\ Len(mentions) = Len(emitted)
    /\ \A k \in DOMAIN mentions :
          /\ IsPassA(mentions[k]) <=> emitted[k].pass = "A"
          /\ IsPassB(mentions[k]) <=> emitted[k].pass = "B"
          /\ IsPassC(mentions[k]) <=> emitted[k].pass = "C"
          /\ IsPassA(mentions[k]) =>
                mentions[k].SymbolToken = tweet_tokens[emitted[k].item]
          /\ IsPassB(mentions[k]) =>
                mentions[k].NameToken = doc[emitted[k].item]
          /\ IsPassC(mentions[k]) =>
                mentions[k].WordChunk = ComparedChunks[emitted[k].item]
    /\ \A k, l \in DOMAIN emitted :
          k < l =>
            /\ PassRank(emitted[k].pass) <= PassRank(emitted[l].pass)
            /\ emitted[k].pass = emitted[l].pass =>
                  emitted[k].item <= emitted[l].item

\* C3 witness: a call returned, in each of the three loops, mentions of two
\* different tokens or chunks, each matching two catalog entries.
C3_Witness ==
    /\ pc = "analyzed"
    /\ \A p \in {"A", "B", "C"} :
          \E k, l \in DOMAIN emitted :
             /\ emitted[k].pass = p /\ emitted[l].pass = p
             /\ emitted[k].item = 1 /\ emitted[k].entry = 2
             /\ emitted[l].item = 2 /\ emitted[l].entry = 1

NameIsShared(i) ==
    \E j \in DOMAIN stock_data :
        j # i /\ stock_data[j].Name = stock_data[i].Name

\* C4 as stated: for every symbol s of the catalog, the Symbol derived for the
\* ProperName derived for s is s.
C4_RoundTripEverySymbol ==
    \A i \in DOMAIN stock_data :
        SymbolOf(stock_data, ProperNameOf(stock_data, stock_data[i].Symbol))
            = stock_data[i].Symbol

\* C4 as amended: for every symbol s of the catalog whose name no other
\* instrument bears, the Symbol derived for the ProperName derived for s is s;
\* so it is for the ProperName of every mention of the first loop.
C4_RoundTripUnsharedNames ==
    /\ \A i \in DOMAIN stock_data :
          ~NameIsShared(i) =>
             SymbolOf(stock_data,
                      ProperNameOf(stock_data, stock_data[i].Symbol))
                = stock_data[i].Symbol
    /\ \A k \in DOMAIN mentions :
          (/\ IsPassA(mentions[k])
           /\ \A i \in DOMAIN stock_data :
                 stock_data[i].Symbol = mentions[k].Symbol => ~NameIsShared(i))
          => SymbolOf(stock_data, mentions[k].ProperName) = mentions[k].Symbol

\* C4 witness: a call over a catalog of two instruments with different names
\* returned a mention of the first loop for the second of them.
C4_Witness ==
    /\ pc = "analyzed"
    /\ Len(stock_data) = 2
    /\ stock_data[1].Name # stock_data[2].Name
    /\ \E k \in DOMAIN mentions :
          IsPassA(mentions[k]) /\ mentions[k].Symbol = stock_data[2].Symbol

\* C5: the text that is tokenized is the tweet without the characters of
\* PUNCTUATION (which does not hold "-") and with every other character, "-"
\* and letters of either case included, kept in place.
C5_OnlyPunctuationConstantRemoved ==
    pc = "analyzed" =>
        stripped = SelectSeq(tweet, LAMBDA c : c \notin PUNCTUATION)

\* C6: for the empty tweet the token sequence and the noun phrases are empty,
\* no (token, catalog entry) pair is evaluated and no mention is returned,
\* whatever the catalog and the model.
C6_EmptyTweetEvaluatesNothing ==
    (pc = "analyzed" /\ tweet = <<>>) =>
        /\ tweet_tokens = <<>>
        /\ doc = <<>>
        /\ ComparedChunks = <<>>
        /\ evaluations = 0
        /\ mentions = <<>>

---------------------------------------------------------------------------
(* Properties of TwitterInlet, under SpecInlet *)

InletFeed == IF is_user_timeline THEN user_feed ELSE home_feed

IsPullStep == home_feed' = home_feed /\ user_feed' = user_feed

Ids(s) == {s[k] : k \in DOMAIN s}

\* C7: every pull returns only tweets newer than the cursor it started with,
\* no tweet is returned by two pulls, and a pull with the cursor None returns
\* the backlog of the timeline (the newest MaxPage of it when it is longer).
C7_PullsNeverRedeliver ==
    [][IsPullStep =>
         /\ most_recent_id # None =>
               \A k \in DOMAIN public_tweets' :
                   public_tweets'[k] > most_recent_id
         /\ \A k, l \in DOMAIN delivered' :
               delivered'[k] = delivered'[l] => k = l
         /\ most_recent_id = None =>
               /\ Ids(public_tweets') \subseteq InletFeed
               /\ \A i \in InletFeed :
                     \/ i \in Ids(public_tweets')
                     \/ /\ Len(public_tweets') = MaxPage
                        /\ \A k \in DOMAIN public_tweets' :
                              public_tweets'[k] > i
      ]_vars

\* C7 witness: a pull that started from a cursor returned tweets after an
\* earlier pull had returned others.
C7_Witness ==
    /\ cursor_before # None
    /\ public_tweets # <<>>
    /\ Len(delivered) > Len(public_tweets)

\* C10: pull changes most_recent_id only when the feed returned a tweet, and
\* then to the id of the first one; a pull that returns nothing leaves it, so
\* a cursor that is not None never becomes None and never decreases.
C10_CursorMovesOnlyForward ==
    [][/\ most_recent_id' # most_recent_id =>
             /\ Len(public_tweets') > 0
             /\ most_recent_id' = public_tweets'[1]
       /\ (IsPullStep /\ public_tweets' = <<>>) =>
             most_recent_id' = most_recent_id
       /\ (IsPullStep /\ public_tweets' # <<>>) =>
             most_recent_id' = public_tweets'[1]
       /\ most_recent_id # None =>
             /\ most_recent_id' # None
             /\ most_recent_id' >= most_recent_id
      ]_vars

\* C10 witness: after a pull had moved the cursor, a pull returned nothing and
\* the cursor is what it was.
C10_Witness ==
    /\ delivered # <<>>
    /\ public_tweets = <<>>
    /\ most_recent_id # None
    /\ cursor_before = most_recent_id
    /\ most_recent_id \in Ids(delivered)

---------------------------------------------------------------------------
(* Properties of the outlet's life, under SpecMain *)

EngineUsable == pc \in {"constructed", "analyzed", "shutdown"}

C9_HandlesReleasedAtExit ==
    pc = "exited" => (server # "open" /\ ~nlp.loaded)

=============================================================================
